---- MODULE Spec2Model ----
(***************************************************************************)
(* Model of the LRU cache of src/src/lru/mod.rs: Cache<K, V> with its      *)
(* HashMap `elements`, its Vec `usage_order`, and the line-oriented text   *)
(* persistence (persist / new_persistent / load_from_reader).              *)
(* K and V are instantiated as String, as in the module's documentation    *)
(* (Cache::<String, String>::new_persistent); a String is a sequence of    *)
(* one-character strings, so that the tab/newline framing of the file is   *)
(* modelled character by character.                                        *)
(*                                                                         *)
(* Spec        the cache engine: new, put, get, clear                      *)
(* SpecPersist the engine together with persist and new_persistent         *)
(* SpecLoad    new_persistent applied to the files of LoadFiles            *)
(* SpecWrite   put and persist, the writes of persist failing at any byte  *)
(* SpecWriteThrough  put and get of PersistentCache (lru/persistent.rs)    *)
(***************************************************************************)
EXTENDS Integers, Sequences, FiniteSets, TLC

VARIABLES
    live,         \* TRUE when the last constructor returned a Cache
    capacity,     \* Cache.capacity
    elements,     \* Cache.elements : HashMap<K, V>
    usage_order,  \* Cache.usage_order : Vec<K>, least recently used first
    file,         \* the durable file at the persistence path
    last,         \* the last call and what it returned
    prev,         \* the call before the last
    ref_stamp,    \* reference LRU: resident key |-> rank of its last access
    fresh_puts,   \* pairs put since construction or clear while only distinct-key puts happened
    accessed_since \* resident key |-> the other keys accessed since its last access

vars == <<live, capacity, elements, usage_order, file, last, prev, ref_stamp, fresh_puts,
          accessed_since>>

----------------------------------------------------------------------------
(* Bounds *)

\* the cache engine on its own (Spec)
MaxCap == 3
NumKeys == 4
\* the cache together with its durable file (SpecPersist, SpecLoad)
MaxFileCap == 2
NumFileKeys == 3
\* the lines of a file that exists before the program runs (SpecLoad)
MaxFileLines == 3

----------------------------------------------------------------------------
(* Characters and strings *)

TAB == "\t"
NL == "\n"
CR == "\r"

KeyPool == << <<"A">>, <<"B">>, <<"C">>, <<"D">>, <<"E">>, <<"F">> >>

Keys == {KeyPool[i] : i \in 1..NumKeys}
\* the values put: a plain one and one whose text holds the field separator
Values == {<<"1">>, <<"1", TAB, "2">>}
Capacities == 0..MaxCap

FileKeys == {KeyPool[i] : i \in 1..NumFileKeys}
FileCapacities == 0..MaxFileCap

None == <<"None">>
Some(v) == <<"Some", v>>

----------------------------------------------------------------------------
(* HashMap<K, V> *)

EmptyMap == [x \in {} |-> <<>>]
contains_key(m, k) == k \in DOMAIN m
insert(m, k, v) == [x \in (DOMAIN m) \cup {k} |-> IF x = k THEN v ELSE m[x]]
remove(m, k) == [x \in (DOMAIN m) \ {k} |-> m[x]]
map_get(m, k) == IF k \in DOMAIN m THEN Some(m[k]) ELSE None

----------------------------------------------------------------------------
(* Vec<K> *)

\* slice::last of a non-empty Vec
Back(seq) == seq[Len(seq)]

\* Iterator::position: index of the first element equal to key, 0 when none
position(v, key) ==
    IF \E i \in 1..Len(v) : v[i] = key
    THEN CHOOSE i \in 1..Len(v) : v[i] = key /\ \A j \in 1..(i - 1) : v[j] # key
    ELSE 0

\* Vec::remove(pos), pos counted from 1
vec_remove(v, pos) == SubSeq(v, 1, pos - 1) \o SubSeq(v, pos + 1, Len(v))

----------------------------------------------------------------------------
(* Cache<K, V> *)

new(cap) == [capacity |-> cap, elements |-> EmptyMap, usage_order |-> <<>>]

\* mutant: the key is pushed again without being removed from its old place
move_to_recently_used_dup(order, key) ==
    LET pos == position(order, key)
    IN  IF pos # 0 THEN Append(order, order[pos]) ELSE order

\* mutant: the key is moved to the least recently used end
move_to_front(order, key) ==
    LET pos == position(order, key)
    IN  IF pos # 0 THEN <<order[pos]>> \o vec_remove(order, pos) ELSE order

\* mutant: the key changes places with the last key of the order
move_to_recently_used_swap(order, key) ==
    LET pos == position(order, key)
    IN  IF pos # 0
        THEN [i \in 1..Len(order) |->
                 IF i = pos THEN order[Len(order)]
                 ELSE IF i = Len(order) THEN order[pos]
                 ELSE order[i]]
        ELSE order

move_to_recently_used(order, key) ==
    LET pos == position(order, key)
    IN  IF pos # 0 THEN Append(vec_remove(order, pos), order[pos]) ELSE order

len(self) == Cardinality(DOMAIN self.elements)

is_empty(self) == DOMAIN self.elements = {}

\* mutant: the map is emptied, usage_order is left as it was
clear_keeps_order(self) == [self EXCEPT !.elements = EmptyMap]

clear(self) == [self EXCEPT !.elements = EmptyMap, !.usage_order = <<>>]

\* the sequence of (key, value) pairs that iter() yields
RECURSIVE iter_from(_, _)
iter_from(order, elems) ==
    IF order = <<>> THEN <<>>
    ELSE LET rest == iter_from(Tail(order), elems)
         IN  IF contains_key(elems, Head(order))
             THEN << <<Head(order), elems[Head(order)]>> >> \o rest
             ELSE rest

\* mutant: the pairs from the most recently used to the least
iter_newest_first(self) ==
    LET it == iter_from(self.usage_order, self.elements)
    IN  [i \in 1..Len(it) |-> it[Len(it) + 1 - i]]

iter(self) == iter_from(self.usage_order, self.elements)

\* mutant: a hit returns the value without touching usage_order
get_no_bump(self, key) ==
    IF contains_key(self.elements, key)
    THEN [cache |-> self, ret |-> map_get(self.elements, key)]
    ELSE [cache |-> self, ret |-> None]

\* mutant: the key is made most recent before its presence is checked
get_unguarded(self, key) ==
    [cache |-> [self EXCEPT !.usage_order = Append(SelectSeq(@, LAMBDA x : x # key), key)],
     ret |-> map_get(self.elements, key)]

\* get returns the cache after the call and the returned Option
get(self, key) ==
    IF contains_key(self.elements, key)
    THEN [cache |-> [self EXCEPT !.usage_order = move_to_recently_used(@, key)],
          ret |-> map_get(self.elements, key)]
    ELSE [cache |-> self, ret |-> None]

\* mutant: eviction only once the capacity is exceeded
needs_eviction_gt(self, key) ==
    len(self) > self.capacity /\ ~contains_key(self.elements, key)

\* mutant: a full cache evicts also when the key is already present
needs_eviction_any_key(self, key) == len(self) >= self.capacity

\* mutant: eviction starts one entry before the capacity is reached
needs_eviction_early(self, key) ==
    len(self) + 1 >= self.capacity /\ ~contains_key(self.elements, key)

\* the condition of the eviction branch of put
needs_eviction(self, key) ==
    len(self) >= self.capacity /\ ~contains_key(self.elements, key)

\* mutant: the most recently used key is removed
evict_mru(self) ==
    IF self.usage_order # <<>>
    THEN [self EXCEPT !.elements = remove(@, Back(self.usage_order)),
                      !.usage_order = vec_remove(@, Len(self.usage_order))]
    ELSE self

\* mutant: the two least recently used keys are removed
evict_lru_twice(self) ==
    LET once == IF self.usage_order # <<>>
                THEN [self EXCEPT !.elements = remove(@, Head(self.usage_order)),
                                  !.usage_order = vec_remove(@, 1)]
                ELSE self
    IN  IF once.usage_order # <<>>
        THEN [once EXCEPT !.elements = remove(@, Head(once.usage_order)),
                          !.usage_order = vec_remove(@, 1)]
        ELSE once

\* removal of the least recently used key: the first of usage_order, if any
evict_lru(self) ==
    IF self.usage_order # <<>>
    THEN [self EXCEPT !.elements = remove(@, Head(self.usage_order)),
                      !.usage_order = vec_remove(@, 1)]
    ELSE self

\* mutant: an update replaces the value and leaves the key where it is
upsert_in_place(self, key, value) ==
    IF contains_key(self.elements, key)
    THEN [self EXCEPT !.elements = insert(@, key, value)]
    ELSE [self EXCEPT !.elements = insert(@, key, value),
                      !.usage_order = Append(@, key)]

\* update of a key that is present, insertion of one that is not
upsert(self, key, value) ==
    IF contains_key(self.elements, key)
    THEN [self EXCEPT !.elements = insert(@, key, value),
                      !.usage_order = move_to_recently_used(@, key)]
    ELSE [self EXCEPT !.elements = insert(@, key, value),
                      !.usage_order = Append(@, key)]

put(self, key, value) ==
    upsert(IF needs_eviction(self, key) THEN evict_lru(self) ELSE self, key, value)

----------------------------------------------------------------------------
(* Text format of the durable file *)

\* writeln!(writer, "{}\t{}", key, value): Display of a String is the string
to_line(key, value) == key \o <<TAB>> \o value \o <<NL>>

\* the bytes persist writes: one line per key of usage_order that has a value
RECURSIVE persist_bytes(_, _)
persist_bytes(order, elems) ==
    IF order = <<>> THEN <<>>
    ELSE (IF contains_key(elems, Head(order))
          THEN to_line(Head(order), elems[Head(order)])
          ELSE <<>>) \o persist_bytes(Tail(order), elems)

\* str::split(sep): the pieces between separators, n separators give n + 1 pieces
RECURSIVE split(_, _)
split(s, sep) ==
    IF \A i \in 1..Len(s) : s[i] # sep THEN <<s>>
    ELSE LET p == CHOOSE i \in 1..Len(s) : s[i] = sep /\ \A j \in 1..(i - 1) : s[j] # sep
         IN  <<SubSeq(s, 1, p - 1)>> \o split(SubSeq(s, p + 1, Len(s)), sep)

\* a line terminated by "\n" loses one "\r" in front of the terminator
strip_cr(line) ==
    IF line # <<>> /\ line[Len(line)] = CR THEN SubSeq(line, 1, Len(line) - 1) ELSE line

\* str::lines(): split at "\n" (or "\r\n"); the final line ending is optional
lines(content) ==
    LET pieces == split(content, NL)
        n == Len(pieces)
        terminated == [i \in 1..(n - 1) |-> strip_cr(pieces[i])]
    IN  IF pieces[n] = <<>> THEN terminated ELSE terminated \o <<pieces[n]>>

\* String::from_str never fails and returns the text unchanged
from_str(text) == [ok |-> TRUE, value |-> text]

Ok(cache) == [tag |-> "Ok", cache |-> cache]
Err(kind) == [tag |-> kind, cache |-> new(0)]

\* mutant: an empty line ends the loop instead of being skipped
RECURSIVE load_lines_break(_, _)
load_lines_break(ls, cache) ==
    IF ls = <<>> THEN Ok(cache)
    ELSE IF Head(ls) = <<>> THEN Ok(cache)
    ELSE LET parts == split(Head(ls), TAB)
         IN  IF Len(parts) # 2 THEN Err("ParseError")
             ELSE LET key == from_str(parts[1])
                      value == from_str(parts[2])
                  IN  IF ~key.ok \/ ~value.ok THEN Err("ParseError")
                      ELSE load_lines_break(Tail(ls), put(cache, key.value, value.value))

\* mutant: a line that is not two fields is skipped instead of failing the load
RECURSIVE load_lines_skip(_, _)
load_lines_skip(ls, cache) ==
    IF ls = <<>> THEN Ok(cache)
    ELSE IF Head(ls) = <<>> THEN load_lines_skip(Tail(ls), cache)
    ELSE LET parts == split(Head(ls), TAB)
         IN  IF Len(parts) # 2 THEN load_lines_skip(Tail(ls), cache)
             ELSE LET key == from_str(parts[1])
                      value == from_str(parts[2])
                  IN  IF ~key.ok \/ ~value.ok THEN Err("ParseError")
                      ELSE load_lines_skip(Tail(ls), put(cache, key.value, value.value))

\* the loop of load_from_reader over the lines that remain
RECURSIVE load_lines(_, _)
load_lines(ls, cache) ==
    IF ls = <<>> THEN Ok(cache)
    ELSE IF Head(ls) = <<>> THEN load_lines(Tail(ls), cache)
    ELSE LET parts == split(Head(ls), TAB)
         IN  IF Len(parts) # 2 THEN Err("ParseError")
             ELSE LET key == from_str(parts[1])
                      value == from_str(parts[2])
                  IN  IF ~key.ok \/ ~value.ok THEN Err("ParseError")
                      ELSE load_lines(Tail(ls), put(cache, key.value, value.value))

\* mutant: the cache is built without the check of a zero capacity
load_from_reader_unchecked(f, cap) ==
    IF f.state = "baddata" THEN Err("IoError")
    ELSE load_lines(lines(f.content), new(cap))

\* load_from_reader: read_to_string, then Self::new(capacity), then the loop
load_from_reader(f, cap) ==
    IF f.state = "baddata" THEN Err("IoError")
    ELSE IF cap = 0 THEN Err("Panic")
    ELSE load_lines(lines(f.content), new(cap))

\* mutant: a path that cannot be opened is an error, also when it is absent
new_persistent_strict(cap, f) ==
    IF f.state \in {"ok", "baddata"} THEN load_from_reader(f, cap)
    ELSE Err("IoError")

\* new_persistent: File::open, then load_from_reader or Self::new
new_persistent(cap, f) ==
    IF f.state \in {"ok", "baddata"} THEN load_from_reader(f, cap)
    ELSE IF cap = 0 THEN Err("Panic")
    ELSE Ok(new(cap))

File(state, content) == [state |-> state, content |-> content]

\* persist: open with write + create + truncate, write every line, flush
persist(self, f) ==
    IF f.state = "noaccess" THEN [tag |-> "IoError", file |-> f]
    ELSE [tag |-> "Ok", file |-> File("ok", persist_bytes(self.usage_order, self.elements))]

\* persist whose open succeeded (the file is truncated) and whose write
\* failed when only the first n bytes had reached the file
persist_interrupted(self, f, n) ==
    [tag |-> "IoError",
     file |-> File("ok", SubSeq(persist_bytes(self.usage_order, self.elements), 1, n))]

----------------------------------------------------------------------------
(* PersistentCache<K, V>: the write-through adapter of lru/persistent.rs *)

QUOTE == "\""
BACKSLASH == "\\"

\* serde_json's text of a string: quoted, with tab, newline, quote and
\* backslash escaped
RECURSIVE json_chars(_)
json_chars(s) ==
    IF s = <<>> THEN <<>>
    ELSE (CASE Head(s) = TAB -> <<BACKSLASH, "t">>
            [] Head(s) = NL -> <<BACKSLASH, "n">>
            [] Head(s) = CR -> <<BACKSLASH, "r">>
            [] Head(s) = QUOTE -> <<BACKSLASH, QUOTE>>
            [] Head(s) = BACKSLASH -> <<BACKSLASH, BACKSLASH>>
            [] OTHER -> <<Head(s)>>) \o json_chars(Tail(s))

json_string(s) == <<QUOTE>> \o json_chars(s) \o <<QUOTE>>

\* the text of one (key, value) tuple
json_pair(pair) == <<"[">> \o json_string(pair[1]) \o <<",">> \o json_string(pair[2]) \o <<"]">>

RECURSIVE json_items(_)
json_items(pairs) ==
    IF pairs = <<>> THEN <<>>
    ELSE json_pair(Head(pairs))
            \o (IF Tail(pairs) = <<>> THEN <<>> ELSE <<",">>)
            \o json_items(Tail(pairs))

\* serde_json::to_string of a Vec of (key, value) tuples
to_json(pairs) == <<"[">> \o json_items(pairs) \o <<"]">>

\* the orders in which the iterator of a HashMap may yield its keys
map_iter_orders(m) ==
    {order \in [1..Cardinality(DOMAIN m) -> DOMAIN m] :
        \A i, j \in 1..Cardinality(DOMAIN m) : order[i] = order[j] => i = j}

\* save_to_file: the entries in the order the map iterator yields them, as
\* JSON, written over the truncated file; an open error leaves the file
save_to_file(self, f, order) ==
    IF f.state = "noaccess" THEN [tag |-> "StorageError", file |-> f]
    ELSE [tag |-> "Ok",
          file |-> File("ok", to_json([i \in 1..Len(order) |->
                                          <<order[i], self.elements[order[i]]>>]))]

----------------------------------------------------------------------------
(* Reference LRU: every resident key carries the rank of its last access *)

ref_empty == [x \in {} |-> 0]

ref_rank(st) ==
    [k \in DOMAIN st |-> Cardinality({j \in DOMAIN st : st[j] <= st[k]})]

ref_oldest(st) == CHOOSE k \in DOMAIN st : \A j \in DOMAIN st : st[k] <= st[j]

ref_newest(st) ==
    IF DOMAIN st = {} THEN 0
    ELSE LET k == CHOOSE k \in DOMAIN st : \A j \in DOMAIN st : st[j] <= st[k] IN st[k]

ref_touch(st, k) ==
    ref_rank([x \in (DOMAIN st) \cup {k} |-> IF x = k THEN ref_newest(st) + 1 ELSE st[x]])

ref_put(st, cap, k) ==
    IF k \notin DOMAIN st /\ Cardinality(DOMAIN st) >= cap /\ DOMAIN st # {}
    THEN ref_touch([x \in (DOMAIN st) \ {ref_oldest(st)} |-> st[x]], k)
    ELSE ref_touch(st, k)

ref_get(st, k) == IF k \in DOMAIN st THEN ref_touch(st, k) ELSE st

\* the (key, value) records of the two-field lines of a file, in file order
RECURSIVE file_records(_)
file_records(ls) ==
    IF ls = <<>> THEN <<>>
    ELSE LET parts == split(Head(ls), TAB)
         IN  (IF Len(parts) = 2 THEN << <<parts[1], parts[2]>> >> ELSE <<>>)
                 \o file_records(Tail(ls))

file_keys(ls) == LET recs == file_records(ls) IN [i \in 1..Len(recs) |-> recs[i][1]]

\* the history of accesses: for every key that is resident, the other keys
\* accessed by a put or by a successful get since its own last access
since_empty == [x \in {} |-> {}]

\* the access of k, after which the keys of resident are in the cache
since_touch(st, k, resident) ==
    [x \in resident |->
        IF x = k THEN {}
        ELSE IF x \in DOMAIN st THEN st[x] \cup {k} ELSE {k}]

\* the accesses of a load: one put per record of the file
RECURSIVE since_replay(_, _, _)
since_replay(st, self, recs) ==
    IF recs = <<>> THEN st
    ELSE LET after == put(self, Head(recs)[1], Head(recs)[2])
         IN  since_replay(since_touch(st, Head(recs)[1], DOMAIN after.elements),
                          after, Tail(recs))

RECURSIVE ref_replay(_, _, _)
ref_replay(st, cap, ks) ==
    IF ks = <<>> THEN st ELSE ref_replay(ref_put(st, cap, Head(ks)), cap, Tail(ks))

----------------------------------------------------------------------------
(* The files the persistence path may hold before the program runs *)

\* a record of every key, a second value for one key, an empty line, a
\* line of one field and a line of three fields
FileLines ==
    {to_line(k, <<"1">>) : k \in FileKeys}
        \cup {to_line(KeyPool[1], <<"2">>), <<NL>>, KeyPool[1] \o <<NL>>,
              to_line(KeyPool[1], <<"1", TAB, "2">>)}

RECURSIVE FileContents(_)
FileContents(n) ==
    IF n = 0 THEN {<<>>}
    ELSE LET shorter == FileContents(n - 1)
         IN  shorter \cup {c \o l : c \in shorter, l \in FileLines}

\* the puts of SpecPersist: every key with a plain value, and one key also
\* with the value that holds the field separator
FilePuts ==
    {<<k, <<"1">>>> : k \in FileKeys} \cup {<<KeyPool[1], <<"1", TAB, "2">>>>}

\* the most bytes a persist of SpecWrite writes: a line per key, the longest
\* line being that of the value with the separator
MaxWritten == MaxFileCap * Len(to_line(KeyPool[1], <<"1", TAB, "2">>))

\* no file, a file that cannot be opened, a file that is not UTF-8 text
OddFiles == {File("absent", <<>>), File("noaccess", <<>>), File("baddata", <<>>)}

\* the files SpecLoad starts from
LoadFiles == OddFiles \cup {File("ok", c) : c \in FileContents(MaxFileLines)}

\* the files SpecPersist starts from; persist writes the others
SeedFiles == OddFiles \cup {File("ok", c) : c \in FileContents(2)}

----------------------------------------------------------------------------
(* State *)

Self == [capacity |-> capacity, elements |-> elements, usage_order |-> usage_order]

SetSelf(cache) ==
    /\ capacity' = cache.capacity
    /\ elements' = cache.elements
    /\ usage_order' = cache.usage_order

\* a call, what it returned and the keys it removed from the cache
Call(op, cap, key, value, ret, evicted) ==
    [op |-> op, cap |-> cap, key |-> key, value |-> value, ret |-> ret, evicted |-> evicted]

NoCall == Call("none", 0, <<>>, <<>>, <<"Unit">>, {})

NotFresh == [ok |-> FALSE, from |-> "none", puts |-> <<>>]
Fresh == [ok |-> TRUE, from |-> "new", puts |-> <<>>]
Cleared == [ok |-> TRUE, from |-> "clear", puts |-> <<>>]

Init ==
    /\ \E cap \in 1..MaxCap : 
          /\ capacity = cap
          /\ last = Call("new", cap, <<>>, <<>>, <<"Ok">>, {})
    /\ prev = NoCall
    /\ live = TRUE
    /\ elements = EmptyMap
    /\ usage_order = <<>>
    /\ file = File("absent", <<>>)
    /\ ref_stamp = ref_empty
    /\ accessed_since = since_empty
    /\ fresh_puts = Fresh

InitPersist ==
    /\ \E cap \in 1..MaxFileCap :
          /\ capacity = cap
          /\ last = Call("new", cap, <<>>, <<>>, <<"Ok">>, {})
    /\ prev = NoCall
    /\ live = TRUE
    /\ elements = EmptyMap
    /\ usage_order = <<>>
    /\ file \in SeedFiles
    /\ ref_stamp = ref_empty
    /\ accessed_since = since_empty
    /\ fresh_puts = Fresh

InitLoad ==
    /\ \E cap \in 1..MaxFileCap :
          /\ capacity = cap
          /\ last = Call("new", cap, <<>>, <<>>, <<"Ok">>, {})
    /\ prev = NoCall
    /\ live = TRUE
    /\ elements = EmptyMap
    /\ usage_order = <<>>
    /\ file \in LoadFiles
    /\ ref_stamp = ref_empty
    /\ accessed_since = since_empty
    /\ fresh_puts = Fresh

\* Cache::new(cap)
New(cap) ==
    /\ live' = (cap # 0)
    /\ SetSelf(new(cap))
    /\ last' = Call("new", cap, <<>>, <<>>, IF cap = 0 THEN <<"Panic">> ELSE <<"Ok">>, {})
    /\ ref_stamp' = ref_empty
    /\ accessed_since' = since_empty
    /\ fresh_puts' = IF cap # 0 THEN Fresh ELSE NotFresh
    /\ UNCHANGED file

\* Cache::new_persistent(cap, path)
NewPersistent(cap) ==
    LET r == new_persistent(cap, file)
    IN  /\ live' = (r.tag = "Ok")
        /\ SetSelf(r.cache)
        /\ last' = Call("new_persistent", cap, <<>>, <<>>, <<r.tag>>, {})
        /\ ref_stamp' = IF r.tag = "Ok" /\ file.state = "ok"
                        THEN ref_replay(ref_empty, cap, file_keys(lines(file.content)))
                        ELSE ref_empty
        /\ accessed_since' = IF r.tag = "Ok" /\ file.state = "ok"
                             THEN since_replay(since_empty, new(cap),
                                               file_records(lines(file.content)))
                             ELSE since_empty
        /\ fresh_puts' = IF r.tag = "Ok" /\ r.cache.usage_order = <<>> THEN Fresh ELSE NotFresh
        /\ UNCHANGED file

\* a put that also saves the cache to the file
Put_write_through(key, value) ==
    /\ live
    /\ SetSelf(put(Self, key, value))
    /\ last' = Call("put", capacity, key, value, <<"Unit">>,
                    (DOMAIN elements) \ (DOMAIN elements'))
    /\ ref_stamp' = ref_put(ref_stamp, capacity, key)
    /\ accessed_since' = since_touch(accessed_since, key, DOMAIN elements')
    /\ fresh_puts' = NotFresh
    /\ file' = persist(put(Self, key, value), file).file
    /\ UNCHANGED live

\* cache.put(key, value)
Put(key, value) ==
    /\ live
    /\ SetSelf(put(Self, key, value))
    /\ last' = Call("put", capacity, key, value, <<"Unit">>,
                    (DOMAIN elements) \ (DOMAIN elements'))
    /\ ref_stamp' = ref_put(ref_stamp, capacity, key)
    /\ accessed_since' = since_touch(accessed_since, key, DOMAIN elements')
    /\ fresh_puts' =
          IF fresh_puts.ok /\ Len(fresh_puts.puts) <= capacity
             /\ \A i \in 1..Len(fresh_puts.puts) : fresh_puts.puts[i][1] # key
          THEN [fresh_puts EXCEPT !.puts = Append(fresh_puts.puts, <<key, value>>)]
          ELSE NotFresh
    /\ UNCHANGED <<live, file>>

\* cache.get(&key)
Get(key) ==
    LET r == get(Self, key)
    IN  /\ live
        /\ SetSelf(r.cache)
        /\ last' = Call("get", capacity, key, <<>>, r.ret, {})
        /\ ref_stamp' = ref_get(ref_stamp, key)
        /\ accessed_since' = IF r.ret # None
                             THEN since_touch(accessed_since, key, DOMAIN elements')
                             ELSE accessed_since
        /\ fresh_puts' = NotFresh
        /\ UNCHANGED <<live, file>>

\* cache.clear()
Clear ==
    /\ live
    /\ SetSelf(clear(Self))
    /\ last' = Call("clear", capacity, <<>>, <<>>, <<"Unit">>, DOMAIN elements)
    /\ ref_stamp' = ref_empty
    /\ accessed_since' = since_empty
    /\ fresh_puts' = Cleared
    /\ UNCHANGED <<live, file>>

\* cache.persist(path)
Persist ==
    LET r == persist(Self, file)
    IN  /\ live
        /\ file' = r.file
        /\ last' = Call("persist", capacity, <<>>, <<>>, <<r.tag>>, {})
        /\ fresh_puts' = NotFresh
        /\ UNCHANGED <<live, capacity, elements, usage_order, ref_stamp, accessed_since>>

\* cache.persist(path) when the write fails after n bytes: the error of
\* writeln! or of flush is returned, the bytes written so far stay
PersistFails(n) ==
    LET r == persist_interrupted(Self, file, n)
    IN  /\ live
        /\ file.state # "noaccess"
        /\ n < Len(persist_bytes(usage_order, elements))
        /\ file' = r.file
        /\ last' = Call("persist", capacity, <<>>, <<>>, <<r.tag>>, {})
        /\ fresh_puts' = NotFresh
        /\ UNCHANGED <<live, capacity, elements, usage_order, ref_stamp, accessed_since>>

\* PersistentCache::put(key, value): put on the cache, then save_to_file,
\* whose error is printed and dropped
PcPut(key, value, order) ==
    LET after == put(Self, key, value)
        saved == save_to_file(after, file, order)
    IN  /\ live
        /\ order \in map_iter_orders(after.elements)
        /\ SetSelf(after)
        /\ file' = saved.file
        /\ last' = Call("pc_put", capacity, key, value, <<saved.tag>>,
                        (DOMAIN elements) \ (DOMAIN after.elements))
        /\ ref_stamp' = ref_put(ref_stamp, capacity, key)
        /\ accessed_since' = since_touch(accessed_since, key, DOMAIN elements')
        /\ fresh_puts' = NotFresh
        /\ UNCHANGED live

\* PersistentCache::get(key): get on the cache, nothing is saved
PcGet(key) ==
    LET r == get(Self, key)
    IN  /\ live
        /\ SetSelf(r.cache)
        /\ last' = Call("pc_get", capacity, key, <<>>, r.ret, {})
        /\ ref_stamp' = ref_get(ref_stamp, key)
        /\ accessed_since' = IF r.ret # None
                             THEN since_touch(accessed_since, key, DOMAIN elements')
                             ELSE accessed_since
        /\ fresh_puts' = NotFresh
        /\ UNCHANGED <<live, file>>

\* the history of calls: kept by the engine specification only
Track == prev' = last
NoTrack == UNCHANGED prev

Next ==
    \/ \E cap \in Capacities : New(cap) /\ Track
    \/ \E key \in Keys, value \in Values : Put(key, value) /\ Track
    \/ \E key \in Keys : Get(key) /\ Track
    \/ Clear /\ Track

Spec == Init /\ [][Next]_vars

NextPersist ==
    \/ \E cap \in FileCapacities : New(cap) /\ NoTrack
    \/ \E cap \in FileCapacities : NewPersistent(cap) /\ NoTrack
    \/ \E kv \in FilePuts : Put(kv[1], kv[2]) /\ NoTrack
    \/ \E key \in FileKeys : Get(key) /\ NoTrack
    \/ Clear /\ NoTrack
    \/ Persist /\ NoTrack

SpecPersist == InitPersist /\ [][NextPersist]_vars

\* new_persistent applied to every file of LoadFiles
NextLoad == \E cap \in FileCapacities : NewPersistent(cap) /\ NoTrack

SpecLoad == InitLoad /\ [][NextLoad]_vars

\* put and persist, with the writes of persist failing at any byte
NextWrite ==
    \/ \E kv \in FilePuts : Put(kv[1], kv[2]) /\ NoTrack
    \/ Persist /\ NoTrack
    \/ \E n \in 0..MaxWritten : PersistFails(n) /\ NoTrack

SpecWrite == InitPersist /\ [][NextWrite]_vars

\* PersistentCache::new(cap, path) on a path that does not exist
InitWriteThrough ==
    /\ \E cap \in 1..MaxFileCap :
          /\ capacity = cap
          /\ last = Call("pc_new", cap, <<>>, <<>>, <<"Ok">>, {})
    /\ prev = NoCall
    /\ live = TRUE
    /\ elements = EmptyMap
    /\ usage_order = <<>>
    /\ file = File("absent", <<>>)
    /\ ref_stamp = ref_empty
    /\ accessed_since = since_empty
    /\ fresh_puts = NotFresh

NextWriteThrough ==
    \/ \E kv \in FilePuts :
          \E order \in UNION {[1..n -> FileKeys] : n \in 1..MaxFileCap} :
              PcPut(kv[1], kv[2], order) /\ NoTrack
    \/ \E key \in FileKeys : PcGet(key) /\ NoTrack

SpecWriteThrough == InitWriteThrough /\ [][NextWriteThrough]_vars

----------------------------------------------------------------------------
(* Type invariant *)

TypeOK ==
    /\ live \in BOOLEAN
    /\ capacity \in Nat
    /\ \A k \in DOMAIN elements : k \in Seq(STRING) /\ elements[k] \in Seq(STRING)
    /\ \A i \in 1..Len(usage_order) : usage_order[i] \in Seq(STRING)
    /\ file.state \in {"absent", "noaccess", "baddata", "ok"}

----------------------------------------------------------------------------
(* Helpers of the properties *)

Range(seq) == {seq[i] : i \in 1..Len(seq)}
NoDuplicates(seq) == \A i, j \in 1..Len(seq) : seq[i] = seq[j] => i = j

\* the first key of the recency sequence other than k
OldestOther(order, k) == SelectSeq(order, LAMBDA x : x # k)[1]

----------------------------------------------------------------------------
(* C1: for every capacity >= 1 and every sequence of put, get and clear    *)
(* calls on a cache created by new(capacity), len() <= capacity holds     *)
(* after every call.                                                      *)

C1_CapacityInvariant == live => len(Self) <= capacity

\* a put of a new key into a full cache of the largest capacity has evicted
C1_Witness ==
    /\ live /\ last.op = "put" /\ last.evicted # {}
    /\ capacity = MaxCap /\ len(Self) = capacity

----------------------------------------------------------------------------
(* C2: after every public operation (new, put, get, clear, load via        *)
(* new_persistent) the keys of `elements` are exactly the keys of         *)
(* `usage_order`, usage_order holds no key twice, and both have the same  *)
(* size.                                                                  *)

C2_MapAndOrderAgree ==
    live => /\ DOMAIN elements = Range(usage_order)
            /\ NoDuplicates(usage_order)
            /\ Len(usage_order) = Cardinality(DOMAIN elements)

\* a load that replayed a file in which one key occurs twice
C2_Witness ==
    /\ live /\ last.op = "new_persistent" /\ file.state = "ok" /\ capacity = 2
    /\ Len(file_keys(lines(file.content))) = 2
    /\ Len(usage_order) = 1

----------------------------------------------------------------------------
(* C3: for every capacity N >= 1, after N + 1 puts with pairwise distinct  *)
(* keys on a fresh cache and no intervening get, the first-inserted key   *)
(* is absent (get returns None), each of the other N keys is present with *)
(* its value, and len() == N.                                             *)

C3_FirstInsertedEvicted ==
    (live /\ fresh_puts.ok /\ fresh_puts.from = "new" /\ Len(fresh_puts.puts) = capacity + 1) =>
        /\ get(Self, fresh_puts.puts[1][1]).ret = None
        /\ \A i \in 2..(capacity + 1) :
              get(Self, fresh_puts.puts[i][1]).ret = Some(fresh_puts.puts[i][2])
        /\ len(Self) = capacity

\* the scenario of test_eviction: capacity 3 and the puts of A, B, C, D
C3_Witness ==
    /\ live /\ fresh_puts.ok /\ fresh_puts.from = "new" /\ capacity = 3
    /\ Len(fresh_puts.puts) = 4
    /\ [i \in 1..4 |-> fresh_puts.puts[i][1]] = <<KeyPool[1], KeyPool[2], KeyPool[3], KeyPool[4]>>

----------------------------------------------------------------------------
(* C4: a successful get(k) protects k from the next eviction: in a full    *)
(* cache with at least two entries, after get(k) hits, the next put of a  *)
(* new key evicts the least recently used key other than k.               *)

C4_HitProtects ==
    [][(/\ live /\ last.op = "get" /\ last.ret # None
        /\ len(Self) = capacity /\ len(Self) >= 2
        /\ last'.op = "put" /\ ~contains_key(elements, last'.key))
       => (/\ contains_key(elements', last.key)
           /\ (DOMAIN elements) \ (DOMAIN elements')
                 = {OldestOther(usage_order, last.key)})]_vars

\* capacity 3: put A, put B, put C, get A, put D has evicted B and kept A
C4_Witness ==
    /\ live /\ capacity = 3
    /\ prev.op = "get" /\ prev.key = KeyPool[1] /\ prev.ret # None
    /\ last.op = "put" /\ last.key = KeyPool[4] /\ last.evicted = {KeyPool[2]}
    /\ usage_order = <<KeyPool[3], KeyPool[1], KeyPool[4]>>

----------------------------------------------------------------------------
(* C5: the key removed by an evicting put is always the resident key whose *)
(* most recent access (successful get or put) is the oldest: the cache    *)
(* and a reference LRU that stamps every access always hold the same keys *)
(* and have the same eviction candidate.                                  *)

C5_MatchesReferenceLRU ==
    live => /\ DOMAIN elements = DOMAIN ref_stamp
            /\ usage_order # <<>> => Head(usage_order) = ref_oldest(ref_stamp)

\* an eviction by the put that follows a hit
C5_Witness ==
    /\ live /\ last.op = "put" /\ last.evicted # {}
    /\ prev.op = "get" /\ prev.ret # None
    /\ len(Self) = capacity /\ capacity >= 2

----------------------------------------------------------------------------
(* C6: put(k, v) with k already resident never changes len() and never     *)
(* evicts a key, also when the cache is exactly at capacity; afterwards   *)
(* the key set is unchanged and get(k) returns v.                         *)

C6_UpdateKeepsKeys ==
    [][(live /\ last'.op = "put" /\ contains_key(elements, last'.key))
       => (/\ DOMAIN elements' = DOMAIN elements
           /\ Cardinality(DOMAIN elements') = Cardinality(DOMAIN elements)
           /\ map_get(elements', last'.key) = Some(last'.value)
           /\ last'.evicted = {})]_vars

\* a put that evicted has left the cache full; the next put, of another key,
\* evicted nothing and the cache is still full: that key was resident
C6_Witness ==
    /\ live /\ last.op = "put" /\ last.evicted = {}
    /\ len(Self) = capacity /\ capacity = MaxCap
    /\ prev.op = "put" /\ prev.evicted # {} /\ prev.key # last.key
    /\ prev.cap = capacity

----------------------------------------------------------------------------
(* C7: get(k) for a key that is not resident returns None and leaves the   *)
(* whole cache unchanged: len(), the entries and the usage_order sequence *)
(* are the same before and after.                                         *)

C7_MissChangesNothing ==
    [][(live /\ last'.op = "get" /\ ~contains_key(elements, last'.key))
       => (/\ last'.ret = None
           /\ elements' = elements
           /\ usage_order' = usage_order
           /\ capacity' = capacity)]_vars

\* a miss on a cache that holds entries
C7_Witness ==
    /\ live /\ last.op = "get" /\ last.ret = None
    /\ Len(usage_order) >= 2

----------------------------------------------------------------------------
(* C8: after any put(k, v), whether k was new or resident and whether or   *)
(* not a key was evicted, k is the last (most recently used) element of   *)
(* usage_order and an immediately following get(k) returns v.             *)

C8_PutMakesMostRecent ==
    [][/\ (live /\ last'.op = "put") =>
              (usage_order' # <<>> /\ Back(usage_order') = last'.key)
       /\ (live /\ last.op = "put" /\ last'.op = "get" /\ last'.key = last.key) =>
              last'.ret = Some(last.value)]_vars

\* a put that evicted nothing into a cache of several keys, then its get
C8_Witness ==
    /\ live /\ last.op = "get" /\ prev.op = "put" /\ prev.key = last.key
    /\ last.ret = Some(prev.value) /\ Back(usage_order) = last.key
    /\ prev.evicted = {} /\ Len(usage_order) >= 2 /\ ~fresh_puts.ok

----------------------------------------------------------------------------
(* C9: persist(path) followed by new_persistent(c, path) with the same     *)
(* capacity c yields, for every reachable cache state, a cache whose      *)
(* iter() sequence (keys, values, order) and whose get results are those  *)
(* of the original.                                                       *)

C9_RoundTrip ==
    [][(/\ live /\ last.op = "persist" /\ last.ret = <<"Ok">>
        /\ last'.op = "new_persistent" /\ last'.cap = capacity)
       => (/\ live'
           /\ iter(Self') = iter(Self)
           /\ \A k \in FileKeys : get(Self', k).ret = get(Self, k).ret)]_vars

----------------------------------------------------------------------------
(* C10: new_persistent(c, path) on an existing well-formed file gives the  *)
(* state obtained by applying put to each file entry in file order on an  *)
(* empty cache of capacity c: the last file entry is most recently used,  *)
(* and when the file holds more than c distinct keys only the last c of   *)
(* them remain, in file order.                                            *)

RECURSIVE Replay(_, _)
Replay(cache, recs) ==
    IF recs = <<>> THEN cache
    ELSE Replay(put(cache, recs[1][1], recs[1][2]), Tail(recs))

\* the records whose key does not occur again later in the file
RECURSIVE LastOccurrences(_)
LastOccurrences(recs) ==
    IF recs = <<>> THEN <<>>
    ELSE IF \E j \in 2..Len(recs) : recs[j][1] = recs[1][1]
         THEN LastOccurrences(Tail(recs))
         ELSE <<recs[1]>> \o LastOccurrences(Tail(recs))

\* the last c elements of a sequence
Suffix(seq, c) == SubSeq(seq, IF Len(seq) > c THEN Len(seq) - c + 1 ELSE 1, Len(seq))

C10_LoadReplaysFile ==
    (live /\ last.op = "new_persistent" /\ file.state = "ok") =>
        LET recs == file_records(lines(file.content))
            kept == Suffix(LastOccurrences(recs), capacity)
        IN  /\ Self = Replay(new(capacity), recs)
            /\ usage_order = [i \in 1..Len(kept) |-> kept[i][1]]
            /\ iter(Self) = kept
            /\ DOMAIN elements = {kept[i][1] : i \in 1..Len(kept)}
            /\ recs # <<>> => Back(usage_order) = Back(recs)[1]

\* a file with more distinct keys than the capacity 2 of the loading cache
C10_Witness ==
    /\ live /\ last.op = "new_persistent" /\ file.state = "ok" /\ capacity = 2
    /\ Cardinality(Range(file_keys(lines(file.content)))) > capacity
    /\ Len(usage_order) = 2

----------------------------------------------------------------------------
(* C11: if a persist fails after it has started, the durable file is left  *)
(* either with its complete previous contents or with the complete new    *)
(* contents, never emptied by the truncation or partially written, and    *)
(* the cache in memory is unchanged by the failure.                       *)

C11_FailedPersistIsAtomic ==
    [][(live /\ last'.op = "persist" /\ last'.ret # <<"Ok">>)
       => (/\ \/ file' = file
              \/ file' = File("ok", persist_bytes(usage_order, elements))
           /\ elements' = elements
           /\ usage_order' = usage_order
           /\ capacity' = capacity)]_vars

----------------------------------------------------------------------------
(* C12: new_persistent fails with a storage (I/O) error whenever the       *)
(* durable location exists but cannot be opened or read; it never returns *)
(* Ok with an empty cache in that case.                                   *)

C12_UnreadableFileIsAnError ==
    (last.op = "new_persistent" /\ last.cap >= 1
        /\ file.state \in {"noaccess", "baddata"})
       => (~live /\ last.ret = <<"IoError">>)

----------------------------------------------------------------------------
(* C13: if any record (non-empty line) of the durable file is malformed,   *)
(* that is, has a field count other than two, new_persistent returns a    *)
(* ParseError and no cache, however many well-formed records precede or   *)
(* follow it; no record is silently skipped.                              *)

\* the number of tab-separated fields of a line
FieldCount(line) == 1 + Cardinality({i \in 1..Len(line) : line[i] = TAB})

\* the non-empty lines of the file
Records(f) == SelectSeq(lines(f.content), LAMBDA l : l # <<>>)

----------------------------------------------------------------------------
(* C14: construction with capacity 0 always fails and never yields a       *)
(* usable cache or a coerced default capacity: Cache::new(0) panics and   *)
(* new_persistent(0, path) fails whether the file is absent, empty or     *)
(* populated.                                                             *)

C14_ZeroCapacityFails ==
    /\ (last.op \in {"new", "new_persistent"} /\ last.cap = 0) =>
           (~live /\ last.ret # <<"Ok">>)
    /\ (last.op = "new" /\ last.cap = 0) => last.ret = <<"Panic">>
    /\ live => capacity >= 1
    /\ (live /\ last.op \in {"new", "new_persistent"}) => capacity = last.cap

\* new_persistent(0, path) on a file that holds records
C14_Witness ==
    /\ last.op = "new_persistent" /\ last.cap = 0 /\ ~live
    /\ file.state = "ok" /\ Len(Records(file)) >= 2
    /\ \A i \in 1..Len(Records(file)) : FieldCount(Records(file)[i]) = 2

----------------------------------------------------------------------------
(* C15: in the write-through adapter PersistentCache, after every put the  *)
(* durable file holds the full current cache contents listed in recency   *)
(* order (least recently used first), so that reloading it reproduces the *)
(* recency order in memory.                                               *)

C15_WriteThroughKeepsRecencyOrder ==
    (live /\ last.op = "pc_put" /\ last.ret = <<"Ok">>) =>
        file = File("ok", to_json(iter(Self)))

----------------------------------------------------------------------------
(* C16: in the snapshot variant (new_persistent / persist) put, get and    *)
(* clear never change the durable file, so between two persist calls the  *)
(* file stays what the last persist wrote; a successful persist writes    *)
(* the snapshot of the cache, and persist leaves the cache in memory      *)
(* unchanged.                                                             *)

C16_FileChangesOnlyOnPersist ==
    [][/\ (last'.op \in {"put", "get", "clear"}) => file' = file
       /\ (last'.op = "persist") =>
              /\ elements' = elements
              /\ usage_order' = usage_order
              /\ capacity' = capacity
              /\ live' = live
              /\ (last'.ret = <<"Ok">>) =>
                     file' = File("ok", persist_bytes(usage_order, elements))
              /\ (last'.ret # <<"Ok">>) => file' = file]_vars

\* after a put the file still holds an older, non-empty snapshot
C16_Witness ==
    /\ live
    /\ last.op = "put"
    /\ file.state = "ok"
    /\ file.content # <<>>
    /\ elements # EmptyMap
    /\ file.content # persist_bytes(usage_order, elements)

----------------------------------------------------------------------------
(* C17: clear() on any reachable cache leaves len() == 0, is_empty() true, *)
(* an empty recency sequence and the capacity unchanged, so that          *)
(* afterwards exactly capacity distinct keys can be put before the first  *)
(* eviction: the first capacity puts evict nothing and are all resident,  *)
(* the next one evicts the first key put after the clear.                 *)

C17_ClearResets ==
    /\ (live /\ last.op = "clear") =>
          /\ len(Self) = 0
          /\ is_empty(Self)
          /\ usage_order = <<>>
          /\ capacity = last.cap
    /\ (live /\ fresh_puts.ok /\ fresh_puts.from = "clear" /\ fresh_puts.puts # <<>>) =>
          LET n == Len(fresh_puts.puts)
          IN  /\ last.op = "put"
              /\ (n <= capacity) =>
                    /\ last.evicted = {}
                    /\ len(Self) = n
                    /\ usage_order = [i \in 1..n |-> fresh_puts.puts[i][1]]
                    /\ \A i \in 1..n :
                          map_get(elements, fresh_puts.puts[i][1]) = Some(fresh_puts.puts[i][2])
              /\ (n = capacity + 1) =>
                    /\ last.evicted = {fresh_puts.puts[1][1]}
                    /\ len(Self) = capacity

\* capacity 2, cleared, then three distinct keys put: the third evicts the first
C17_Witness ==
    /\ live /\ capacity = 2
    /\ fresh_puts.ok /\ fresh_puts.from = "clear"
    /\ Len(fresh_puts.puts) = 3
    /\ last.op = "put" /\ last.evicted = {fresh_puts.puts[1][1]}
    /\ prev.op = "put" /\ prev.evicted = {}

----------------------------------------------------------------------------
(* C18: in every reachable state iter() yields exactly len() pairs, one    *)
(* per resident key with its current value, ordered from the least        *)
(* recently used to the most recently used, the recency of a key being    *)
(* its last successful get or put.                                        *)

C18_IterInRecencyOrder ==
    live =>
        LET it == iter(Self)
        IN  /\ Len(it) = len(Self)
            /\ {it[i][1] : i \in 1..Len(it)} = DOMAIN elements
            /\ \A i, j \in 1..Len(it) : it[i][1] = it[j][1] => i = j
            /\ \A i \in 1..Len(it) : Some(it[i][2]) = map_get(elements, it[i][1])
            /\ \A i, j \in 1..Len(it) :
                  i < j => ref_stamp[it[i][1]] < ref_stamp[it[j][1]]

\* three residents, a hit on one that was not the most recent: it is yielded last
C18_Witness ==
    /\ live /\ len(Self) = 3
    /\ last.op = "get" /\ last.ret # None
    /\ prev.op = "put" /\ prev.key # last.key
    /\ Len(iter(Self)) = 3
    /\ iter(Self)[3][1] = last.key
    /\ iter(Self)[2][1] = prev.key

----------------------------------------------------------------------------
(* C19: put is idempotent: for every reachable cache, key k and value v,   *)
(* put(k, v) performed a second time in a row leaves the entries, the     *)
(* recency order, len() and the capacity exactly as the first left them.  *)

C19_PutIsIdempotent ==
    [][(/\ live /\ last.op = "put"
        /\ last'.op = "put" /\ last'.key = last.key /\ last'.value = last.value)
       => (/\ elements' = elements
           /\ usage_order' = usage_order
           /\ capacity' = capacity
           /\ len([capacity |-> capacity', elements |-> elements',
                   usage_order |-> usage_order']) = len(Self)
           /\ last'.evicted = {})]_vars

\* a full cache of three: the put of a new key evicted one, its repetition none
C19_Witness ==
    /\ live /\ capacity = 3 /\ len(Self) = 3
    /\ prev.op = "put" /\ prev.evicted # {}
    /\ last.op = "put" /\ last.key = prev.key /\ last.value = prev.value
    /\ last.evicted = {}
    /\ Back(usage_order) = last.key

----------------------------------------------------------------------------
(* C20: new_persistent(c, path) with c >= 1 succeeds with an empty cache   *)
(* of capacity c (len() == 0) when the durable file does not exist, and   *)
(* likewise when the file exists but is empty.                            *)

C20_MissingOrEmptyFileStartsEmpty ==
    (/\ last.op = "new_persistent" /\ last.cap >= 1
     /\ \/ file.state = "absent"
        \/ file = File("ok", <<>>))
       => (/\ live
           /\ last.ret = <<"Ok">>
           /\ Self = new(last.cap)
           /\ len(Self) = 0
           /\ is_empty(Self)
           /\ iter(Self) = <<>>
           /\ capacity = last.cap)

\* capacity 2 on a file that exists and holds nothing
C20_Witness ==
    /\ last.op = "new_persistent" /\ last.cap = 2
    /\ file = File("ok", <<>>)
    /\ live /\ capacity = 2 /\ elements = EmptyMap

----------------------------------------------------------------------------
(* C21: each put changes len() by 0 or +1 and removes at most one resident *)
(* key: a put of a new key into a cache with len() == capacity removes    *)
(* exactly one key, the front of the recency sequence, and leaves len()   *)
(* == capacity; a put of a new key into a cache that is not full removes  *)
(* none and increases len() by exactly 1.                                 *)

C21_PutRemovesAtMostOne ==
    [][(live /\ last'.op = "put") =>
          LET before == Cardinality(DOMAIN elements)
              after == Cardinality(DOMAIN elements')
              removed == (DOMAIN elements) \ (DOMAIN elements')
              fresh == ~contains_key(elements, last'.key)
          IN  /\ after - before \in {0, 1}
              /\ Cardinality(removed) <= 1
              /\ (fresh /\ before = capacity) =>
                    /\ removed = {Head(usage_order)}
                    /\ after = capacity
                    /\ contains_key(elements', last'.key)
              /\ (fresh /\ before < capacity) =>
                    /\ removed = {}
                    /\ after = before + 1
              /\ ~fresh => (removed = {} /\ after = before)]_vars

\* capacity 3: the put that filled the cache removed nothing, the next put of
\* a new key removed exactly one key and left three residents
C21_Witness ==
    /\ live /\ capacity = 3 /\ len(Self) = 3
    /\ prev.op = "put" /\ prev.evicted = {}
    /\ last.op = "put" /\ Cardinality(last.evicted) = 1
    /\ last.key # prev.key
    /\ usage_order[2] = prev.key /\ usage_order[3] = last.key

----------------------------------------------------------------------------
(* C22: a successful get(k) returns the value last put for k and changes   *)
(* only the recency position of k: the entries (keys and values) and      *)
(* len() are unchanged, k becomes the last element of the recency         *)
(* sequence and the relative order of all other keys is preserved. The    *)
(* value held for a key is the one of its last put: only a put of k sets  *)
(* it, and every other put or get leaves it as it was.                    *)

C22_HitChangesOnlyRecency ==
    [][/\ (live /\ last'.op = "get" /\ last'.ret # None) =>
              /\ contains_key(elements, last'.key)
              /\ last'.ret = Some(elements[last'.key])
              /\ elements' = elements
              /\ capacity' = capacity
              /\ Cardinality(DOMAIN elements') = Cardinality(DOMAIN elements)
              /\ Len(usage_order') = Len(usage_order)
              /\ Back(usage_order') = last'.key
              /\ SubSeq(usage_order', 1, Len(usage_order') - 1)
                    = SelectSeq(usage_order, LAMBDA k : k # last'.key)
       /\ (live /\ last'.op \in {"put", "get"}) =>
              \A k \in DOMAIN elements' :
                  IF last'.op = "put" /\ last'.key = k
                  THEN elements'[k] = last'.value
                  ELSE k \in DOMAIN elements /\ elements'[k] = elements[k]]_vars

\* capacity 3, full: after the put of the third key, a hit on an older key
\* moved it behind the key just put
C22_Witness ==
    /\ live /\ capacity = 3 /\ len(Self) = 3
    /\ prev.op = "put" /\ prev.value = <<"1", TAB, "2">>
    /\ last.op = "get" /\ last.ret = Some(<<"1">>)
    /\ last.key # prev.key
    /\ usage_order[2] = prev.key /\ usage_order[3] = last.key

----------------------------------------------------------------------------
(* C23: survival bound. After a key k is accessed by put(k, _) or by a     *)
(* successful get(k), k stays resident, absent a clear, for as long as    *)
(* fewer than capacity distinct keys other than k have been accessed by   *)
(* put or successful get since that access; k can only be evicted by the  *)
(* put that makes the number of such other keys reach capacity or more.   *)

\* the other keys accessed since the last access of the resident key k
OthersSince(k) == IF k \in DOMAIN accessed_since THEN accessed_since[k] ELSE {}

C23_SurvivalBound ==
    [][(live /\ last'.op \in {"put", "get"}) =>
          \A k \in DOMAIN elements :
              LET accessing == last'.op = "put" \/ last'.ret # None
                  others == IF accessing /\ last'.key # k
                            THEN OthersSince(k) \cup {last'.key}
                            ELSE OthersSince(k)
              IN  /\ k \in DOMAIN accessed_since
                  /\ Cardinality(others) < capacity => k \in DOMAIN elements'
                  /\ k \notin DOMAIN elements' =>
                        /\ last'.op = "put"
                        /\ last'.key # k
                        /\ Cardinality(OthersSince(k)) < capacity
                        /\ Cardinality(others) >= capacity]_vars

\* capacity 3, full: a hit on the oldest key, then the put of a new key
\* evicts another key; the key that was hit has seen one other key since,
\* and one resident has seen capacity - 1 others and is still resident
C23_Witness ==
    /\ live /\ capacity = 3 /\ len(Self) = 3
    /\ prev.op = "get" /\ prev.ret # None
    /\ last.op = "put" /\ Cardinality(last.evicted) = 1
    /\ prev.key \in DOMAIN elements
    /\ OthersSince(prev.key) = {last.key}
    /\ \E k \in DOMAIN elements : Cardinality(OthersSince(k)) = capacity - 1

====
